---- MODULE Spec2Model ----
(***************************************************************************)
(* Model of the data-access core of black-clover: the Filter strategies    *)
(* (src/app/crud/filter.py), the StudentRepository (src/app/crud/          *)
(* student.py), the response mapper (src/app/services/__init__.py) and the *)
(* StudentService (src/app/services/student.py); the UserService           *)
(* (src/app/services/user.py) over a UserRepository taken from the         *)
(* specification, its module not being among the sources.                  *)
(* The student routes (src/app/api/api_v1/router/student.py) are modelled  *)
(* by their try/except around the service call.                            *)
(*                                                                         *)
(* A request runs as one sequential task, so every handler is one action;  *)
(* its outcome is held in outcome until it is delivered to the caller, and *)
(* the next request starts after that.                                     *)
(* Only SpecRace splits update_student and delete_student at their awaits  *)
(* and interleaves the steps of concurrent requests on one record.         *)
(* The storage session is the environment: each storage call a handler     *)
(* awaits (get, scalar, scalars, delete, commit) either succeeds or raises *)
(* an SQLAlchemyError with some message; which one is drawn with \E.       *)
(* The calls a handler issued on the session are kept in outcome.calls.    *)
(***************************************************************************)
EXTENDS Integers, Sequences, FiniteSets, TLC

\* ---- bounds -------------------------------------------------------------
MaxId == 2       \* how many ids the serial primary key hands out
MaxTime == 2     \* how far the wall clock runs
MaxRows == 2     \* rows of the table the unique filter is exercised on
MaxSessions == 2 \* how many sessions get_session hands out

\* ---- value domains ------------------------------------------------------
Names == {"Asta", "Yuno"}
Emails == {"asta@mail.com", "yuno@mail.com"}
Msgs == {"connection lost", "constraint violated"}
Ok == "ok"
CallResults == {Ok} \cup Msgs

\* Python's None.  Rows are records too, so None compares unequal to any row.
None == [none |-> TRUE]
\* Python's True / False as returned values.
PyBool(b) == [bool |-> b]

\* ---- the session's call log --------------------------------------------
\* Each entry is a call on the session and how it ended: Ok, or the message
\* of the error it raised.
Enter == [call |-> "enter", res |-> Ok]
Close == [call |-> "close", res |-> Ok]
Call(name, res) == [call |-> name, res |-> res]

Returned(v, calls) ==
    [kind |-> "return", exc |-> "", msg |-> "", value |-> v, calls |-> calls]
Raised(e, m, calls) ==
    [kind |-> "raise", exc |-> e, msg |-> m, value |-> None, calls |-> calls]

\* ---- storage ------------------------------------------------------------
\* A table is the sequence of its rows in storage order.
RowsWithId(tbl, id) == {i \in DOMAIN tbl : tbl[i].id = id}

\* session.get(model, pk): the row with that primary key, or None.
Lookup(tbl, id) ==
    IF RowsWithId(tbl, id) = {} THEN None
    ELSE tbl[CHOOSE i \in RowsWithId(tbl, id) : \A j \in RowsWithId(tbl, id) : i <= j]

\* Mutant of Without: the DELETE removes nothing.
Without_soft(tbl, id) == tbl

RECURSIVE Without(_, _)
Without(tbl, id) ==
    IF tbl = <<>> THEN <<>>
    ELSE IF Head(tbl).id = id THEN Without(Tail(tbl), id)
    ELSE <<Head(tbl)>> \o Without(Tail(tbl), id)

Replace(tbl, row) == [i \in DOMAIN tbl |-> IF tbl[i].id = row.id THEN row ELSE tbl[i]]

VARIABLES students, users, nextId, now, outcome, repo, background, tasks
vars == <<students, users, nextId, now, outcome, repo, background, tasks>>

\* ---- src/app/crud/filter.py --------------------------------------------
\* select(model).where(model.<field> == value), rows in storage order.
RECURSIVE Select(_, _, _)
Select(tbl, field, value) ==
    IF tbl = <<>> THEN <<>>
    ELSE (IF Head(tbl)[field] = value THEN <<Head(tbl)>> ELSE <<>>)
         \o Select(Tail(tbl), field, value)

\* Mutant of Scalar: Result.one(), which raises when there is no row.
Scalar_one(rows) ==
    IF Len(rows) = 1 THEN Returned(rows[1], <<>>)
    ELSE IF Len(rows) = 0 THEN Raised("SQLAlchemyError", "NoResultFound", <<>>)
    ELSE Raised("SQLAlchemyError", "MultipleResultsFound", <<>>)

\* session.scalar(stmt): the first row of the result, None when it has none.
Scalar(rows) ==
    IF Len(rows) = 0 THEN Returned(None, <<>>) ELSE Returned(rows[1], <<>>)

\* Mutant of IndexFilter_filter: a storage error is translated into
\* DatabaseException.
IndexFilter_filter_wrap(tbl, id, field, res) ==
    LET call == IF field # "" THEN "scalar" ELSE "get"
        log == <<Enter, Call(call, res), Close>> IN
    IF res # Ok THEN Raised("DatabaseException", res, log)
    ELSE IF field # ""
    THEN LET r == Scalar(Select(tbl, "id", id)) IN
         IF r.kind = "raise" THEN Raised(r.exc, r.msg, log) ELSE Returned(r.value, log)
    ELSE Returned(Lookup(tbl, id), log)

\* IndexFilter.filter, one storage call: session.scalar(select ... where
\* id = value) when a field is given, session.get(model, value) otherwise.
\* A storage error is logged and re-raised as it is.
IndexFilter_filter(tbl, id, field, res) ==
    LET call == IF field # "" THEN "scalar" ELSE "get"
        log == <<Enter, Call(call, res), Close>> IN
    IF res # Ok THEN Raised("SQLAlchemyError", res, log)
    ELSE IF field # ""
    THEN LET r == Scalar(Select(tbl, "id", id)) IN
         IF r.kind = "raise" THEN Raised(r.exc, r.msg, log) ELSE Returned(r.value, log)
    ELSE Returned(Lookup(tbl, id), log)

\* Mutant of One: Result.first(), which gives None for no row and the first
\* row of several.
One_first(rows) ==
    IF Len(rows) = 0 THEN Returned(None, <<>>) ELSE Returned(rows[1], <<>>)

\* Result.one(): the only row of the result; no row and several rows are
\* NoResultFound and MultipleResultsFound, both SQLAlchemyError.
One(rows) ==
    IF Len(rows) = 1 THEN Returned(rows[1], <<>>)
    ELSE IF Len(rows) = 0 THEN Raised("SQLAlchemyError", "NoResultFound", <<>>)
    ELSE Raised("SQLAlchemyError", "MultipleResultsFound", <<>>)

\* Mutant of UniqueFilter_filter: the field is validated inside the session
\* scope.
UniqueFilter_filter_late(tbl, field, value, res) ==
    IF field \notin {"username", "email"}
    THEN Raised("ValueError", "Invalid field specified for filtering", <<Enter, Close>>)
    ELSE IF res # Ok
    THEN Raised("SQLAlchemyError", res, <<Enter, Call("scalars", res), Close>>)
    ELSE LET one == One(Select(tbl, field, value))
             log == <<Enter, Call("scalars", res), Close>> IN
         IF one.kind = "raise" THEN Raised(one.exc, one.msg, log)
         ELSE Returned(one.value, log)

\* UniqueFilter.filter: the statement is built (or ValueError raised) before
\* the session scope is entered; then scalars(stmt).one().
UniqueFilter_filter(tbl, field, value, res) ==
    IF field \notin {"username", "email"}
    THEN Raised("ValueError", "Invalid field specified for filtering", <<>>)
    ELSE IF res # Ok
    THEN Raised("SQLAlchemyError", res, <<Enter, Call("scalars", res), Close>>)
    ELSE LET one == One(Select(tbl, field, value))
             log == <<Enter, Call("scalars", res), Close>> IN
         IF one.kind = "raise" THEN Raised(one.exc, one.msg, log)
         ELSE Returned(one.value, log)

\* ---- src/app/crud/student.py -------------------------------------------
\* StudentRepository.__init__: the instance keeps the session it is given.
\* used holds the handles its last two operations ran on.
StudentRepository(session) == [session |-> session, used |-> <<>>]

\* Mutant of self_session: every operation takes the next handle of a pool.
self_session_perCall(repository) ==
    IF repository.used = <<>> THEN repository.session
    ELSE (repository.used[Len(repository.used)] % MaxSessions) + 1

\* self.session, the handle of 'async with self.session as session' in
\* every operation.
self_session(repository) == repository.session

\* An operation of the repository runs on self.session.
Operate(repository) ==
    LET u == Append(repository.used, self_session(repository)) IN
    [repository EXCEPT !.used = IF Len(u) > 2 THEN Tail(u) ELSE u]

\* A fault plan says how the n-th storage call of one invocation ends.  No
\* handler goes on after a failed call, so the plans are "no call fails" and
\* "the n-th call is the one that fails, with this message".
FaultPlans ==
    {[n \in {1, 2, 3} |-> Ok]}
    \cup {[n \in {1, 2, 3} |-> IF n = k THEN m ELSE Ok] : k \in {1, 2, 3}, m \in Msgs}

\* Mutant of read_by_id: absence is raised as an error.
read_by_id_strict(tbl, id, res) ==
    IF res # Ok
    THEN Raised("DatabaseException", res, <<Enter, Enter, Call("get", res), Close, Close>>)
    ELSE IF RowsWithId(tbl, id) = {}
    THEN Raised("DatabaseException", "not found", <<Enter, Enter, Call("get", res), Close, Close>>)
    ELSE Returned(Lookup(tbl, id), <<Enter, Enter, Call("get", res), Close, Close>>)

\* StudentRepository.read_by_id: the index filter inside the repository's
\* own session scope; SQLAlchemyError becomes DatabaseException, absence is
\* returned as None.
read_by_id(tbl, id, res) ==
    LET r == IndexFilter_filter(tbl, id, "", res)
        log == <<Enter>> \o r.calls \o <<Close>> IN
    IF r.kind = "raise" THEN Raised("DatabaseException", r.msg, log)
    ELSE Returned(r.value, log)

\* Mutant of read_students: a failed select is tried once more.
read_students_retry(tbl, offset, limit, res) ==
    LET log == IF res # Ok THEN <<Enter, Call("scalars", res), Call("scalars", Ok), Close>>
               ELSE <<Enter, Call("scalars", res), Close>>
        last == IF offset + limit < Len(tbl) THEN offset + limit ELSE Len(tbl) IN
    Returned([rows |-> SubSeq(tbl, offset + 1, last)], log)

\* Mutant of read_students: the select runs on the session outside any
\* 'async with' scope.
read_students_noScope(tbl, offset, limit, res) ==
    LET log == <<Call("scalars", res)>>
        last == IF offset + limit < Len(tbl) THEN offset + limit ELSE Len(tbl) IN
    IF res # Ok THEN Raised("DatabaseException", res, log)
    ELSE Returned([rows |-> SubSeq(tbl, offset + 1, last)], log)

\* StudentRepository.read_students: select(Student).offset(o).limit(l).
read_students(tbl, offset, limit, res) ==
    LET log == <<Enter, Call("scalars", res), Close>>
        last == IF offset + limit < Len(tbl) THEN offset + limit ELSE Len(tbl) IN
    IF res # Ok THEN Raised("DatabaseException", res, log)
    ELSE Returned([rows |-> SubSeq(tbl, offset + 1, last)], log)

\* Mutant of Insert: the row is never persisted.
Insert_lost(tbl, id, rec) == tbl

\* The INSERT of create: the serial primary key and the column defaults
\* (updated_at is nullable without default, NULL is 0).
Insert(tbl, id, rec) ==
    Append(tbl, [id |-> id, first_name |-> rec.first_name, updated_at |-> 0])

\* Mutant of create_student: the failed commit is logged but not raised, and
\* the re-read goes ahead.
create_student_noRaise(tbl, id, rec, plan) ==
    LET tbl2 == IF plan[1] # Ok THEN tbl ELSE Insert(tbl, id, rec)
        r == read_by_id(tbl2, id, plan[2])
        log == <<Enter, Call("commit", plan[1])>> \o r.calls \o <<Close>> IN
    [tbl |-> tbl2,
     out |-> IF r.kind = "raise" THEN Raised("DatabaseException", r.msg, log)
             ELSE Returned(r.value, log)]

\* StudentRepository.create_student: add, commit, then re-read by the new id.
\* Gives [tbl, out]: the table afterwards and the outcome.
create_student(tbl, id, rec, plan) ==
    IF plan[1] # Ok
    THEN [tbl |-> tbl,
          out |-> Raised("DatabaseException", plan[1],
                         <<Enter, Call("commit", plan[1]), Close>>)]
    ELSE LET tbl2 == Insert(tbl, id, rec)
             r == read_by_id(tbl2, id, plan[2])
             log == <<Enter, Call("commit", plan[1])>> \o r.calls \o <<Close>> IN
         [tbl |-> tbl2,
          out |-> IF r.kind = "raise" THEN Raised("DatabaseException", r.msg, log)
                  ELSE Returned(r.value, log)]

\* The fields a StudentUpdate patch of the model can set: one that is a
\* column of Student and one that is not.  exclude_unset keeps only the
\* fields the request set, so a patch is a function on a subset of them.
PatchFields == {"first_name", "username"}
PatchValues(f) == IF f = "first_name" THEN Names ELSE {"yuno123"}
Patches ==
    UNION {{p \in [S -> Names \cup {"yuno123"}] : \A f \in S : p[f] \in PatchValues(f)} :
              S \in SUBSET PatchFields}

\* get_password_hash of app.core.security.password: a hash is never the
\* plaintext it was made from.
Passwords == {"Password1.", "Hk7pH9*35Fu&3U"}
get_password_hash(p) == IF p = "Password1." THEN "$2b$12$Kix" ELSE "$2b$12$Wq9"

\* Mutant of ApplyPatch: updated_at is not stamped.
ApplyPatch_noStamp(row, patch, t) ==
    [f \in DOMAIN row |->
        IF f \in DOMAIN patch
        THEN (IF f = "password" THEN get_password_hash(patch[f]) ELSE patch[f])
        ELSE row[f]]

\* Mutant of ApplyPatch: the loop assigns nothing but the time stamp.
ApplyPatch_stampOnly(row, patch, t) ==
    [f \in DOMAIN row |-> IF f = "updated_at" THEN t ELSE row[f]]

\* Mutant of ApplyPatch: every field is assigned update_data.get(field), so a
\* field the patch does not set is blanked.
ApplyPatch_overwrite(row, patch, t) ==
    [f \in DOMAIN row |->
        IF f = "updated_at" THEN t
        ELSE IF f \in DOMAIN patch
        THEN (IF f = "password" THEN get_password_hash(patch[f]) ELSE patch[f])
        ELSE IF f = "id" THEN row[f]
        ELSE ""]

\* Mutant of ApplyPatch: the time stamp is assigned first, so a patch that
\* sets updated_at overwrites it.
ApplyPatch_patchWins(row, patch, t) ==
    [f \in DOMAIN row |->
        IF f \in DOMAIN patch
        THEN (IF f = "password" THEN get_password_hash(patch[f]) ELSE patch[f])
        ELSE IF f = "updated_at" THEN t
        ELSE row[f]]

\* Mutant of ApplyPatch: the password is assigned like any other field.
ApplyPatch_plain(row, patch, t) ==
    [f \in DOMAIN row |->
        IF f = "updated_at" THEN t
        ELSE IF f \in DOMAIN patch THEN patch[f]
        ELSE row[f]]

\* The assignment loop of update_student: every field of the record that the
\* patch sets is overwritten, a field named password with the hash of the
\* patch's value (no Student column has that name); updated_at is stamped
\* with the current time.
ApplyPatch(row, patch, t) ==
    [f \in DOMAIN row |->
        IF f = "updated_at" THEN t
        ELSE IF f \in DOMAIN patch
        THEN (IF f = "password" THEN get_password_hash(patch[f]) ELSE patch[f])
        ELSE row[f]]

\* StudentRepository.update_student: read, assign, add + commit (outside any
\* try), re-read.  With no record found, jsonable_encoder(None) is None and
\* iterating it raises TypeError.
update_student(tbl, id, patch, plan, t) ==
    LET r1 == read_by_id(tbl, id, plan[1]) IN
    IF r1.kind = "raise"
    THEN [tbl |-> tbl,
          out |-> Raised("DatabaseException", r1.msg,
                         <<Enter>> \o r1.calls \o <<Close>>)]
    ELSE IF r1.value = None
    THEN [tbl |-> tbl,
          out |-> Raised("TypeError", "'NoneType' object is not iterable",
                         <<Enter>> \o r1.calls \o <<Close>>)]
    ELSE IF plan[2] # Ok
    THEN [tbl |-> tbl,
          out |-> Raised("SQLAlchemyError", plan[2],
                         <<Enter>> \o r1.calls \o <<Call("commit", plan[2]), Close>>)]
    ELSE LET tbl2 == Replace(tbl, ApplyPatch(r1.value, patch, t))
             r2 == read_by_id(tbl2, id, plan[3])
             log == <<Enter>> \o r1.calls \o <<Call("commit", plan[2])>>
                    \o r2.calls \o <<Close>> IN
         [tbl |-> tbl2,
          out |-> IF r2.kind = "raise" THEN Raised("DatabaseException", r2.msg, log)
                  ELSE Returned(r2.value, log)]

\* Mutant of SessionDelete: deleting None is accepted as a no-op.
SessionDelete_lenient(instance, res) == res

\* session.delete(instance): None is no mapped instance, which is
\* UnmappedInstanceError, an SQLAlchemyError, whatever the storage does.
SessionDelete(instance, res) ==
    IF instance = None THEN "Class 'builtins.NoneType' is not mapped" ELSE res

\* Mutant of delete_student: the except clause raises without rolling back.
delete_student_noRollback(tbl, id, plan) ==
    LET r1 == read_by_id(tbl, id, plan[1])
        pre == <<Enter>> \o r1.calls
        del == SessionDelete(r1.value, plan[2]) IN
    IF r1.kind = "raise"
    THEN [tbl |-> tbl, out |-> Raised("DatabaseException", r1.msg, pre \o <<Close>>)]
    ELSE IF del # Ok
    THEN [tbl |-> tbl,
          out |-> Raised("DatabaseException", del, pre \o <<Call("delete", del), Close>>)]
    ELSE IF plan[3] # Ok
    THEN [tbl |-> tbl,
          out |-> Raised("DatabaseException", plan[3],
                         pre \o <<Call("delete", Ok), Call("commit", plan[3]), Close>>)]
    ELSE [tbl |-> Without(tbl, id),
          out |-> Returned(PyBool(TRUE),
                           pre \o <<Call("delete", Ok), Call("commit", Ok), Close>>)]

\* StudentRepository.delete_student: read, delete, commit; a storage error of
\* delete or commit is rolled back and raised as DatabaseException.  The
\* rollback discards the pending delete and is taken not to fail itself.
delete_student(tbl, id, plan) ==
    LET r1 == read_by_id(tbl, id, plan[1])
        pre == <<Enter>> \o r1.calls
        del == SessionDelete(r1.value, plan[2]) IN
    IF r1.kind = "raise"
    THEN [tbl |-> tbl, out |-> Raised("DatabaseException", r1.msg, pre \o <<Close>>)]
    ELSE IF del # Ok
    THEN [tbl |-> tbl,
          out |-> Raised("DatabaseException", del,
                         pre \o <<Call("delete", del), Call("rollback", Ok), Close>>)]
    ELSE IF plan[3] # Ok
    THEN [tbl |-> tbl,
          out |-> Raised("DatabaseException", plan[3],
                         pre \o <<Call("delete", Ok), Call("commit", plan[3]),
                                  Call("rollback", Ok), Close>>)]
    ELSE [tbl |-> Without(tbl, id),
          out |-> Returned(PyBool(TRUE),
                           pre \o <<Call("delete", Ok), Call("commit", Ok), Close>>)]

\* ---- src/app/models/student.py, src/app/schemas/student.py --------------
\* The attributes a Student instance has (its columns and its relationship).
StudentAttrs ==
    {"id", "user_id", "user", "first_name", "last_name", "identification",
     "age", "magic_affinity", "grimoire_cover", "is_active", "created_at",
     "updated_at"}

\* StudentResponse(StudentInDB, StudentOptional, StudentBase, StudentID):
\* all its fields, and those declared with Field(...), i.e. required.
StudentResponse ==
    [fields |-> {"id", "username", "email", "first_name", "last_name",
                 "magic_affinity", "is_active", "is_superuser", "created_at",
                 "updated_at"},
     required |-> {"id", "username", "email", "first_name", "last_name",
                   "is_active", "is_superuser"}]

\* ---- src/app/services/__init__.py --------------------------------------
\* model_to_response: None for a falsy model, else response_model.from_orm,
\* which reads every field of the schema off the instance with getattr and
\* raises ValidationError when a required field is not an attribute of it.
model_to_response(model, attrs, schema, calls) ==
    IF model = None THEN Returned(None, calls)
    ELSE IF ~(schema.required \subseteq attrs)
    THEN Raised("ValidationError", "field required", calls)
    ELSE Returned([f \in (DOMAIN model) \cap schema.fields |-> model[f]], calls)

\* ---- src/app/services/student.py ---------------------------------------
\* Mutant of Wrap: the failed read-before-delete is reported as not found.
Wrap_notFound(out) ==
    IF out.exc = "DatabaseException"
    THEN (IF out.msg = "Class 'builtins.NoneType' is not mapped"
          THEN Raised("NotFoundException", out.msg, out.calls)
          ELSE Raised("ServiceException", out.msg, out.calls))
    ELSE out

\* The except clause of every service method: DatabaseException becomes
\* ServiceException with the same message; anything else passes through.
Wrap(out) ==
    IF out.exc = "DatabaseException" THEN Raised("ServiceException", out.msg, out.calls)
    ELSE out

\* StudentService.get_student_by_id.
get_student_by_id(tbl, id, res) ==
    LET r == read_by_id(tbl, id, res) IN
    IF r.kind = "raise" THEN Wrap(r)
    ELSE IF r.value = None
    THEN Raised("NotFoundException", "Student not found in the system.", r.calls)
    ELSE model_to_response(r.value, StudentAttrs, StudentResponse, r.calls)

RECURSIVE MapResponses(_, _)
MapResponses(rows, calls) ==
    IF rows = <<>> THEN Returned([rows |-> <<>>], calls)
    ELSE LET h == model_to_response(Head(rows), StudentAttrs, StudentResponse, calls)
             t == MapResponses(Tail(rows), calls) IN
         IF h.kind = "raise" THEN h
         ELSE IF t.kind = "raise" THEN t
         ELSE Returned([rows |-> <<h.value>> \o t.value.rows], calls)

\* StudentService.get_all_students.
get_all_students(tbl, offset, limit, res) ==
    LET r == read_students(tbl, offset, limit, res) IN
    IF r.kind = "raise" THEN Wrap(r) ELSE MapResponses(r.value.rows, r.calls)

\* StudentService.create_student / update_student: the repository's result
\* through model_to_response.
Respond(r) ==
    [tbl |-> r.tbl,
     out |-> IF r.out.kind = "raise" THEN Wrap(r.out)
             ELSE model_to_response(r.out.value, StudentAttrs, StudentResponse,
                                    r.out.calls)]

\* StudentService.delete_student: {"ok": deleted, "deleted_at": now}.
Deleted(r, t) ==
    [tbl |-> r.tbl,
     out |-> IF r.out.kind = "raise" THEN Wrap(r.out)
             ELSE Returned([ok |-> r.out.value.bool, deleted_at |-> t], r.out.calls)]

\* ---- src/app/models/user.py, src/app/schemas/user.py ---------------------
\* The attributes a User instance has (its columns).
UserAttrs ==
    {"id", "username", "email", "password", "is_active", "is_superuser",
     "created_at", "updated_at"}

\* Mutant of UserResponse: the schema exposes the password column as well.
UserResponse_withPassword ==
    [fields |-> {"id", "username", "email", "password", "is_superuser", "is_active",
                 "created_at", "updated_at"},
     required |-> {"id", "username", "email", "password"}]

\* UserResponse(UserInDB, UserAuth): id, username and email are required,
\* the others have defaults; the schema has no password field.
UserResponse ==
    [fields |-> {"id", "username", "email", "is_superuser", "is_active",
                 "created_at", "updated_at"},
     required |-> {"id", "username", "email"}]

\* UserUpdateResponse(UserInDB, UserNewPassword, UserAuth): with the hashed
\* password.
UserUpdateResponse ==
    [fields |-> {"id", "username", "email", "password", "is_superuser", "is_active",
                 "created_at", "updated_at"},
     required |-> {"id", "username", "email", "password"}]

\* ---- UserRepository (app.crud.user), as the specification describes it ---
Usernames == {"yuno123", "asta456"}
NewUsers == [username : Usernames, email : Emails, password : Passwords]

\* The INSERT of a user: the password is stored as it was given (create
\* does not hash), updated_at is NULL.
InsertUser(tbl, id, user) ==
    Append(tbl, [id |-> id, username |-> user.username, email |-> user.email,
                 password |-> user.password, updated_at |-> 0])

\* The unique constraints of users.username and users.email, seen by a
\* commit that writes the row.
Unique(tbl, row) ==
    \A i \in DOMAIN tbl :
        tbl[i].id # row.id => (tbl[i].username # row.username /\ tbl[i].email # row.email)

Commit(tbl, row, res) ==
    IF res # Ok THEN res
    ELSE IF ~Unique(tbl, row) THEN "constraint violated"
    ELSE Ok

\* UserRepository.create_user: insert, commit, re-read by the new id.
create_user(tbl, id, user, plan) ==
    LET tbl2 == InsertUser(tbl, id, user)
        c == Commit(tbl, tbl2[Len(tbl2)], plan[1]) IN
    IF c # Ok
    THEN [tbl |-> tbl,
          out |-> Raised("DatabaseException", c, <<Enter, Call("commit", c), Close>>)]
    ELSE LET r == read_by_id(tbl2, id, plan[2])
             log == <<Enter, Call("commit", Ok)>> \o r.calls \o <<Close>> IN
         [tbl |-> tbl2,
          out |-> IF r.kind = "raise" THEN Raised("DatabaseException", r.msg, log)
                  ELSE Returned(r.value, log)]

\* UserRepository.read_by_username / read_by_email: the unique filter inside
\* the repository's session scope; every failure of it, no row and several
\* rows included, becomes DatabaseException.
read_by_unique(tbl, field, value, res) ==
    LET r == UniqueFilter_filter(tbl, field, value, res)
        log == <<Enter>> \o r.calls \o <<Close>> IN
    IF r.kind = "raise" THEN Raised("DatabaseException", r.msg, log)
    ELSE Returned(r.value, log)

\* The fields a UserUpdate patch of the model sets.
UserPatches ==
    {[password |-> pw] : pw \in Passwords}
    \cup {[username |-> u] : u \in Usernames}
    \cup {[username |-> u, password |-> pw] : u \in Usernames, pw \in Passwords}
    \cup {<<>>}

\* UserRepository.update_user: read (an absent record fails the read step
\* with DatabaseException), assign, commit, re-read.
update_user(tbl, id, patch, plan, t) ==
    LET r1 == read_by_id(tbl, id, plan[1])
        pre == <<Enter>> \o r1.calls IN
    IF r1.kind = "raise"
    THEN [tbl |-> tbl, out |-> Raised("DatabaseException", r1.msg, pre \o <<Close>>)]
    ELSE IF r1.value = None
    THEN [tbl |-> tbl, out |-> Raised("DatabaseException", "not found", pre \o <<Close>>)]
    ELSE LET row == ApplyPatch(r1.value, patch, t)
             c == Commit(tbl, row, plan[2]) IN
         IF c # Ok
         THEN [tbl |-> tbl,
               out |-> Raised("DatabaseException", c, pre \o <<Call("commit", c), Close>>)]
         ELSE LET tbl2 == Replace(tbl, row)
                  r2 == read_by_id(tbl2, id, plan[3])
                  log == pre \o <<Call("commit", Ok)>> \o r2.calls \o <<Close>> IN
              [tbl |-> tbl2,
               out |-> IF r2.kind = "raise" THEN Raised("DatabaseException", r2.msg, log)
                       ELSE Returned(r2.value, log)]

\* ---- src/app/services/user.py ------------------------------------------
\* UserService.get_user_by_id.
get_user_by_id(tbl, id, res) ==
    LET r == read_by_id(tbl, id, res) IN
    IF r.kind = "raise" THEN Wrap(r)
    ELSE IF r.value = None
    THEN Raised("NotFoundException", "User with id not found in the system.", r.calls)
    ELSE model_to_response(r.value, UserAttrs, UserResponse, r.calls)

\* UserService.get_user_by_username (through get_login_user) and
\* get_user_by_email.
get_user_by_unique(tbl, field, value, res) ==
    LET r == read_by_unique(tbl, field, value, res) IN
    IF r.kind = "raise" THEN Wrap(r)
    ELSE model_to_response(r.value, UserAttrs, UserResponse, r.calls)

\* UserService.register_user.
register_user(tbl, id, user, plan) ==
    LET r == create_user(tbl, id, user, plan) IN
    [tbl |-> r.tbl,
     out |-> IF r.out.kind = "raise" THEN Wrap(r.out)
             ELSE model_to_response(r.out.value, UserAttrs, UserResponse, r.out.calls)]

\* UserService.update_user.
update_user_service(tbl, id, patch, plan, t) ==
    LET r == update_user(tbl, id, patch, plan, t) IN
    [tbl |-> r.tbl,
     out |-> IF r.out.kind = "raise" THEN Wrap(r.out)
             ELSE model_to_response(r.out.value, UserAttrs, UserUpdateResponse,
                                    r.out.calls)]

\* ---- the state machine -------------------------------------------------
Ids == 1..MaxId
NewStudents == [first_name : Names]
Offsets == 0..MaxId
Limits == 1..MaxId

Done(op, args, out) == [op |-> op, args |-> args, res |-> out]
\* No request is being served.
Idle == Done("idle", None, Returned(None, <<>>))

Init ==
    /\ students = <<>>
    /\ users = <<>>
    /\ nextId = 1
    /\ now = 0
    /\ outcome = Idle
    /\ repo = StudentRepository(1)
    /\ background = <<>>
    /\ tasks = <<>>

\* -- requests to the repository
RepoReadById ==
    /\ outcome = Idle
    /\ \E id \in Ids, res \in CallResults :
        /\ outcome' = Done("repo.read_by_id", [id |-> id, fault |-> res], read_by_id(students, id, res))
        /\ repo' = Operate(repo)
        /\ UNCHANGED <<students, users, nextId, now, background, tasks>>

RepoReadStudents ==
    /\ outcome = Idle
    /\ \E o \in Offsets, l \in Limits, res \in CallResults :
        /\ outcome' = Done("repo.read_students", [offset |-> o, limit |-> l, fault |-> res],
                           read_students(students, o, l, res))
        /\ repo' = Operate(repo)
        /\ UNCHANGED <<students, users, nextId, now, background, tasks>>

RepoCreate ==
    /\ outcome = Idle
    /\ nextId <= MaxId
    /\ \E rec \in NewStudents, plan \in FaultPlans :
        LET r == create_student(students, nextId, rec, plan) IN
        /\ students' = r.tbl
        /\ nextId' = IF plan[1] = Ok THEN nextId + 1 ELSE nextId
        /\ outcome' = Done("repo.create", [rec |-> rec, fault |-> plan], r.out)
        /\ repo' = Operate(repo)
        /\ UNCHANGED <<users, now, background, tasks>>

RepoUpdate ==
    /\ outcome = Idle
    /\ now < MaxTime
    /\ \E id \in Ids, patch \in Patches, plan \in FaultPlans :
        LET r == update_student(students, id, patch, plan, now + 1) IN
        /\ students' = r.tbl
        /\ now' = now + 1
        /\ outcome' = Done("repo.update", [id |-> id, patch |-> patch, fault |-> plan], r.out)
        /\ repo' = Operate(repo)
        /\ UNCHANGED <<users, nextId, background, tasks>>

RepoDelete ==
    /\ outcome = Idle
    /\ \E id \in Ids, plan \in FaultPlans :
        LET r == delete_student(students, id, plan) IN
        /\ students' = r.tbl
        /\ outcome' = Done("repo.delete", [id |-> id, fault |-> plan], r.out)
        /\ repo' = Operate(repo)
        /\ UNCHANGED <<users, nextId, now, background, tasks>>

\* -- requests to the service
SvcGetById ==
    /\ outcome = Idle
    /\ \E id \in Ids, res \in CallResults :
        /\ outcome' = Done("svc.get_by_id", [id |-> id, fault |-> res],
                           get_student_by_id(students, id, res))
        /\ repo' = Operate(repo)
        /\ UNCHANGED <<students, users, nextId, now, background, tasks>>

SvcGetAll ==
    /\ outcome = Idle
    /\ \E o \in Offsets, l \in Limits, res \in CallResults :
        /\ outcome' = Done("svc.get_all", [offset |-> o, limit |-> l, fault |-> res],
                           get_all_students(students, o, l, res))
        /\ repo' = Operate(repo)
        /\ UNCHANGED <<students, users, nextId, now, background, tasks>>

SvcCreate ==
    /\ outcome = Idle
    /\ nextId <= MaxId
    /\ \E rec \in NewStudents, plan \in FaultPlans :
        LET r == Respond(create_student(students, nextId, rec, plan)) IN
        /\ students' = r.tbl
        /\ nextId' = IF plan[1] = Ok THEN nextId + 1 ELSE nextId
        /\ outcome' = Done("svc.create", [rec |-> rec, fault |-> plan], r.out)
        /\ repo' = Operate(repo)
        /\ UNCHANGED <<users, now, background, tasks>>

SvcUpdate ==
    /\ outcome = Idle
    /\ now < MaxTime
    /\ \E id \in Ids, patch \in Patches, plan \in FaultPlans :
        LET r == Respond(update_student(students, id, patch, plan, now + 1)) IN
        /\ students' = r.tbl
        /\ now' = now + 1
        /\ outcome' = Done("svc.update", [id |-> id, patch |-> patch, fault |-> plan], r.out)
        /\ repo' = Operate(repo)
        /\ UNCHANGED <<users, nextId, background, tasks>>

SvcDelete ==
    /\ outcome = Idle
    /\ now < MaxTime
    /\ \E id \in Ids, plan \in FaultPlans :
        LET r == Deleted(delete_student(students, id, plan), now + 1) IN
        /\ students' = r.tbl
        /\ now' = now + 1
        /\ outcome' = Done("svc.delete", [id |-> id, fault |-> plan], r.out)
        /\ repo' = Operate(repo)
        /\ UNCHANGED <<users, nextId, background, tasks>>

\* The outcome reaches the caller: the value is returned or the error raised.
Deliver ==
    /\ outcome # Idle
    /\ outcome' = Idle
    /\ UNCHANGED <<students, users, nextId, now, repo, background, tasks>>

Next ==
    \/ Deliver
    \/ RepoReadById \/ RepoReadStudents \/ RepoCreate \/ RepoUpdate \/ RepoDelete
    \/ SvcGetById \/ SvcGetAll \/ SvcCreate \/ SvcUpdate \/ SvcDelete

Spec == Init /\ [][Next]_vars

\* -- the repository on its own, and get_student_repository: a repository is
\* built around the session get_session hands out, a new one at each call.
GetStudentRepository ==
    /\ outcome = Idle
    /\ repo.session < MaxSessions
    /\ repo' = StudentRepository(repo.session + 1)
    /\ UNCHANGED <<students, users, nextId, now, outcome, background, tasks>>

NextRepo ==
    \/ Deliver \/ GetStudentRepository
    \/ RepoReadById \/ RepoReadStudents \/ RepoCreate \/ RepoUpdate \/ RepoDelete

SpecRepo == Init /\ [][NextRepo]_vars

\* -- the filters on their own, over every table of at most MaxRows rows: a
\* filter is a function of the rows the statement selects and does not rely
\* on the schema's unique constraints.
UserTables ==
    UNION {{[i \in 1..n |-> [id |-> i, username |-> f[i][1], email |-> f[i][2]]] :
                f \in [1..n -> Names \X Emails]} : n \in 0..MaxRows}

InitFilter ==
    /\ students = <<>>
    /\ users \in UserTables
    /\ nextId = 1
    /\ now = 0
    /\ outcome = Idle
    /\ repo = StudentRepository(1)
    /\ background = <<>>
    /\ tasks = <<>>

UniqueFilterCall ==
    /\ outcome = Idle
    /\ \E field \in {"username", "email", "id"}, value \in Names \cup Emails,
       res \in CallResults :
        /\ outcome' = Done("filter.unique", [field |-> field, value |-> value, fault |-> res],
                           UniqueFilter_filter(users, field, value, res))
        /\ UNCHANGED <<students, users, nextId, now, repo, background, tasks>>

IndexFilterCall ==
    /\ outcome = Idle
    /\ \E id \in 1..(MaxRows + 1), field \in {"", "id"}, res \in CallResults :
        /\ outcome' = Done("filter.index", [id |-> id, field |-> field, fault |-> res],
                           IndexFilter_filter(users, id, field, res))
        /\ UNCHANGED <<students, users, nextId, now, repo, background, tasks>>

NextFilter == Deliver \/ UniqueFilterCall \/ IndexFilterCall

SpecFilter == InitFilter /\ [][NextFilter]_vars

\* -- the user service on its own: users are registered, looked up and
\* updated, one request at a time.  The key of a new user is the next of the
\* serial (the service has no delete, a failed insert is taken not to use a
\* key up).
UserRegister ==
    /\ outcome = Idle
    /\ Len(users) < MaxId
    /\ \E user \in NewUsers, plan \in FaultPlans :
        LET r == register_user(users, Len(users) + 1, user, plan) IN
        /\ users' = r.tbl
        /\ outcome' = Done("user.register", [user |-> user, fault |-> plan], r.out)
        /\ UNCHANGED <<students, nextId, now, repo, background, tasks>>

UserGetById ==
    /\ outcome = Idle
    /\ \E id \in Ids, res \in CallResults :
        /\ outcome' = Done("user.get_by_id", [id |-> id, fault |-> res],
                           get_user_by_id(users, id, res))
        /\ UNCHANGED <<students, users, nextId, now, repo, background, tasks>>

UserGetByUnique ==
    /\ outcome = Idle
    /\ \E field \in {"username", "email"}, res \in CallResults :
       \E value \in (IF field = "username" THEN Usernames ELSE Emails) :
        /\ outcome' = Done("user.get_by_" \o field,
                           [field |-> field, value |-> value, fault |-> res],
                           get_user_by_unique(users, field, value, res))
        /\ UNCHANGED <<students, users, nextId, now, repo, background, tasks>>

UserUpdate ==
    /\ outcome = Idle
    /\ now < MaxTime
    /\ \E id \in Ids, patch \in UserPatches, plan \in FaultPlans :
        LET r == update_user_service(users, id, patch, plan, now + 1) IN
        /\ users' = r.tbl
        /\ now' = now + 1
        /\ outcome' = Done("user.update", [id |-> id, patch |-> patch, fault |-> plan], r.out)
        /\ UNCHANGED <<students, nextId, repo, background, tasks>>

NextUser == Deliver \/ UserRegister \/ UserGetById \/ UserGetByUnique \/ UserUpdate

SpecUser == Init /\ [][NextUser]_vars

\* ---- src/app/api/api_v1/router/student.py ------------------------------
\* The exception classes of app.core.security.exceptions and of sqlalchemy an
\* except clause of that class catches: ServiceException and
\* NotFoundException are business-layer kinds, no storage errors.
Catches(class) ==
    IF class = "SQLAlchemyError" THEN {"SQLAlchemyError"} ELSE {class}

\* The try/except of a route handler around its service call: the first
\* clause that catches the exception raises HTTPException with its status
\* code; an exception no clause catches leaves the handler as it is.
Handler(out, clauses) ==
    IF out.kind = "raise" /\ \E k \in DOMAIN clauses : out.exc \in Catches(clauses[k].class)
    THEN LET k == CHOOSE i \in DOMAIN clauses :
                      /\ out.exc \in Catches(clauses[i].class)
                      /\ \A j \in 1..(i - 1) : out.exc \notin Catches(clauses[j].class)
         IN Raised("HTTPException", clauses[k].status, out.calls)
    ELSE out

Except(class, status) == [class |-> class, status |-> status]

\* Mutant of add_task: the e-mail is scheduled whatever the service call
\* gave.
add_task_always(queue, out, rec) ==
    Append(queue, [task |-> "send_new_account_email", args |-> rec])

\* The 'if new_student:' block of create_student_request: the welcome e-mail
\* is added to the background tasks when the service returned a student (the
\* e-mail address of a StudentCreate is required, hence never empty).  It is
\* only added: the tasks run after the response has been sent.
add_task(queue, out, rec) ==
    IF out.kind = "return" /\ out.value # None
    THEN Append(queue, [task |-> "send_new_account_email", args |-> rec])
    ELSE queue

\* A method the router calls and StudentService does not define.
NoAttribute(name) ==
    Raised("AttributeError", "'StudentService' object has no attribute '" \o name \o "'",
           <<>>)

\* -- requests to the student routes, one at a time.
\* POST /students.  The welcome e-mail is scheduled when the service returned
\* a student, which it never does for a stored row.
RouteCreate ==
    /\ outcome = Idle
    /\ nextId <= MaxId
    /\ \E rec \in NewStudents, plan \in FaultPlans :
        LET r == Respond(create_student(students, nextId, rec, plan)) IN
        /\ students' = r.tbl
        /\ nextId' = IF plan[1] = Ok THEN nextId + 1 ELSE nextId
        /\ outcome' = Done("route.create", [rec |-> rec, fault |-> plan],
                           Handler(r.out, <<Except("ServiceException", "400")>>))
        /\ background' = add_task(background, r.out, rec)
        /\ repo' = Operate(repo)
        /\ UNCHANGED <<users, now, tasks>>

\* PUT /students/{student_id}.
RouteUpdate ==
    /\ outcome = Idle
    /\ now < MaxTime
    /\ \E id \in Ids, patch \in Patches, plan \in FaultPlans :
        LET r == Respond(update_student(students, id, patch, plan, now + 1)) IN
        /\ students' = r.tbl
        /\ now' = now + 1
        /\ outcome' = Done("route.update", [id |-> id, patch |-> patch, fault |-> plan],
                           Handler(r.out, <<Except("ServiceException", "400")>>))
        /\ repo' = Operate(repo)
        /\ UNCHANGED <<users, nextId, background, tasks>>

\* DELETE /students/{student_id}.
RouteDelete ==
    /\ outcome = Idle
    /\ now < MaxTime
    /\ \E id \in Ids, plan \in FaultPlans :
        LET r == Deleted(delete_student(students, id, plan), now + 1) IN
        /\ students' = r.tbl
        /\ now' = now + 1
        /\ outcome' = Done("route.delete", [id |-> id, fault |-> plan],
                           Handler(r.out, <<Except("SQLAlchemyError", "400")>>))
        /\ repo' = Operate(repo)
        /\ UNCHANGED <<users, nextId, background, tasks>>

\* GET /students/{student_id} and GET /students/me (the id of the current
\* user).
RouteGetById ==
    /\ outcome = Idle
    /\ \E id \in Ids, res \in CallResults, route \in {"route.get_by_id", "route.me"} :
        /\ outcome' = Done(route, [id |-> id, fault |-> res],
                           Handler(get_student_by_id(students, id, res),
                                   <<Except("ServiceException", "404"),
                                     Except("NotFoundException", "404")>>))
        /\ repo' = Operate(repo)
        /\ UNCHANGED <<students, users, nextId, now, background, tasks>>

\* PATCH /students/{student_id}/status, GET /students and GET
\* /students/{student_id}/grimoire call update_student_status, get_students
\* and get_grimoire_by_id, which StudentService does not have.
RouteNoAttribute ==
    /\ outcome = Idle
    /\ \E id \in Ids :
       \E call \in {<<"route.status", "update_student_status",
                      <<Except("ServiceException", "400")>> >>,
                    <<"route.get_students", "get_students",
                      <<Except("ServiceException", "404")>> >>,
                    <<"route.grimoire", "get_grimoire_by_id",
                      <<Except("ServiceException", "404"),
                        Except("NotFoundException", "404")>> >>} :
        /\ outcome' = Done(call[1], [id |-> id, fault |-> Ok],
                           Handler(NoAttribute(call[2]), call[3]))
        /\ UNCHANGED <<students, users, nextId, now, repo, background, tasks>>

NextRoute ==
    \/ Deliver
    \/ RouteCreate \/ RouteUpdate \/ RouteDelete \/ RouteGetById \/ RouteNoAttribute

SpecRoute == Init /\ [][NextRoute]_vars

\* -- concurrent requests on one record.  Every request has its own
\* repository and session; a request is suspended at each storage call it
\* awaits, so the steps of update_student and delete_student are its read,
\* its commit and its re-read, and the steps of different requests
\* interleave.  The storage calls themselves succeed here unless the row
\* they write is gone.
Updaters == {"u1", "u2"}
Deleters == {"d"}
RaceId == 1
Stale == "UPDATE statement on table 'student' expected to update 1 row(s); 0 were matched."

\* A request that has not started: its patch, the record it read, the record
\* after the assignments, the rank of its commit among the commits of the
\* updates (0: none yet) and its outcome.
NotStarted ==
    [pc |-> "start", patch |-> <<>>, read |-> None, assigned |-> None, seq |-> 0,
     out |-> Returned(None, <<>>)]

\* Mutant of Flush: a row that is gone is written anew.
Flush_upsert(tbl, read, assigned) ==
    IF RowsWithId(tbl, read.id) = {} THEN [tbl |-> Append(tbl, assigned), res |-> Ok]
    ELSE [tbl |-> Replace(tbl, [f \in DOMAIN assigned |->
                                   IF assigned[f] # read[f] THEN assigned[f]
                                   ELSE Lookup(tbl, read.id)[f]]),
          res |-> Ok]

\* session.add(found_student); await session.commit() of update_student: the
\* unit of work issues UPDATE student SET <the attributes whose value differs
\* from the loaded one> WHERE id = <id>; when no row matches, the flush
\* raises StaleDataError, an SQLAlchemyError, and nothing is written.
Flush(tbl, read, assigned) ==
    IF RowsWithId(tbl, read.id) = {} THEN [tbl |-> tbl, res |-> Stale]
    ELSE [tbl |-> Replace(tbl, [f \in DOMAIN assigned |->
                                   IF assigned[f] # read[f] THEN assigned[f]
                                   ELSE Lookup(tbl, read.id)[f]]),
          res |-> Ok]

InitRace ==
    /\ \E rec \in NewStudents : students = Insert(<<>>, RaceId, rec)
    /\ users = <<>>
    /\ nextId = RaceId + 1
    /\ now = 0
    /\ outcome = Idle
    /\ repo = StudentRepository(1)
    /\ background = <<>>
    /\ tasks = [p \in Updaters \cup Deleters |-> NotStarted]

\* update_student up to its commit: read_by_id, then the assignment loop on
\* the record read.
UpdateRead(p) ==
    /\ tasks[p].pc = "start"
    /\ now < MaxTime
    /\ \E patch \in Patches :
        LET r == read_by_id(students, RaceId, Ok) IN
        tasks' = [tasks EXCEPT ![p] =
                    IF r.value = None
                    THEN [@ EXCEPT !.pc = "done", !.patch = patch,
                                   !.out = Raised("TypeError",
                                                  "'NoneType' object is not iterable",
                                                  <<Enter>> \o r.calls \o <<Close>>)]
                    ELSE [@ EXCEPT !.pc = "read", !.patch = patch, !.read = r.value,
                                   !.assigned = ApplyPatch(r.value, patch, now + 1)]]
    /\ now' = now + 1
    /\ UNCHANGED <<students, users, nextId, outcome, repo, background>>

\* session.add and commit of update_student.
UpdateCommit(p) ==
    /\ tasks[p].pc = "read"
    /\ LET f == Flush(students, tasks[p].read, tasks[p].assigned)
           rank == 1 + Cardinality({q \in Updaters : tasks[q].seq > 0}) IN
       /\ students' = f.tbl
       /\ tasks' = [tasks EXCEPT ![p] =
                      IF f.res # Ok
                      THEN [@ EXCEPT !.pc = "done",
                                     !.out = Raised("SQLAlchemyError", f.res,
                                                    <<Call("commit", f.res), Close>>)]
                      ELSE [@ EXCEPT !.pc = "committed", !.seq = rank]]
    /\ UNCHANGED <<users, nextId, now, outcome, repo, background>>

\* The re-read that ends update_student.
UpdateReread(p) ==
    /\ tasks[p].pc = "committed"
    /\ LET r == read_by_id(students, RaceId, Ok) IN
       tasks' = [tasks EXCEPT ![p] =
                    [@ EXCEPT !.pc = "done", !.out = Returned(r.value, r.calls \o <<Close>>)]]
    /\ UNCHANGED <<students, users, nextId, now, outcome, repo, background>>

\* delete_student up to its delete: read_by_id.
DeleteRead(p) ==
    /\ tasks[p].pc = "start"
    /\ LET r == read_by_id(students, RaceId, Ok)
           del == SessionDelete(r.value, Ok) IN
       tasks' = [tasks EXCEPT ![p] =
                    IF del # Ok
                    THEN [@ EXCEPT !.pc = "done",
                                   !.out = Raised("DatabaseException", del,
                                                  <<Enter>> \o r.calls
                                                  \o <<Call("delete", del),
                                                       Call("rollback", Ok), Close>>)]
                    ELSE [@ EXCEPT !.pc = "read", !.read = r.value]]
    /\ UNCHANGED <<students, users, nextId, now, outcome, repo, background>>

\* session.delete and commit of delete_student.  A DELETE that matches no
\* row is only warned about by the unit of work, so the request returns
\* True whether or not the row is still there.
DeleteCommit(p) ==
    /\ tasks[p].pc = "read"
    /\ students' = Without(students, RaceId)
    /\ tasks' = [tasks EXCEPT ![p] =
                    [@ EXCEPT !.pc = "done",
                              !.out = Returned(PyBool(TRUE),
                                               <<Call("delete", Ok), Call("commit", Ok),
                                                 Close>>)]]
    /\ UNCHANGED <<users, nextId, now, outcome, repo, background>>

NextRace ==
    \/ \E p \in Updaters : UpdateRead(p) \/ UpdateCommit(p) \/ UpdateReread(p)
    \/ \E p \in Deleters : DeleteRead(p) \/ DeleteCommit(p)

SpecRace == InitRace /\ [][NextRace]_vars

\* ======================= claims =========================================
Failed(calls) == \E k \in DOMAIN calls : calls[k].res # Ok
RepoOps == {"repo.read_by_id", "repo.read_students", "repo.create", "repo.update",
            "repo.delete"}
RouteOps == {"route.create", "route.update", "route.delete", "route.get_by_id",
             "route.me", "route.status", "route.get_students", "route.grimoire"}
SvcOps == {"svc.get_by_id", "svc.get_all", "svc.create", "svc.update", "svc.delete"}

\* C1: a record the repository's create returns has a non-null, positive id,
\* and read_by_id with that id right afterwards returns an equal record.
C1_CreateReturnsThePersistedRecord ==
    (outcome.op = "repo.create" /\ outcome.res.kind = "return") =>
        LET v == outcome.res.value IN
        /\ v # None
        /\ v.id \in Nat \ {0}
        /\ \E i \in DOMAIN students : students[i] = v
        /\ read_by_id(students, v.id, Ok).kind = "return"
        /\ read_by_id(students, v.id, Ok).value = v

C1_Witness ==
    /\ outcome.op = "repo.create"
    /\ outcome.res.kind = "return"
    /\ outcome.res.value # None
    /\ outcome.res.value.id = 2

\* C2: update with an empty patch right after read_by_id returns the record
\* that was read with every field unchanged except updated_at, which is
\* later than it was.
C2_EmptyPatchOnlyRefreshesUpdatedAt ==
    [][(/\ outcome'.op = "repo.update"
        /\ outcome'.res.kind = "return"
        /\ DOMAIN outcome'.args.patch = {})
       => LET before == read_by_id(students, outcome'.args.id, Ok).value
              after == outcome'.res.value IN
          /\ before # None
          /\ after # None
          /\ DOMAIN after = DOMAIN before
          /\ \A f \in DOMAIN before \ {"updated_at"} : after[f] = before[f]
          /\ after.updated_at > before.updated_at]_vars

C2_Witness ==
    /\ outcome.op = "repo.update"
    /\ outcome.res.kind = "return"
    /\ DOMAIN outcome.args.patch = {}
    /\ outcome.res.value # None
    /\ outcome.res.value.updated_at >= 2

C4_ReadByIdReturnsNoneOrTheRecord ==
    outcome.op = "repo.read_by_id" =>
        LET m == {i \in DOMAIN students : students[i].id = outcome.args.id} IN
        /\ (outcome.res.kind = "raise") <=> (outcome.args.fault # Ok)
        /\ (outcome.res.kind = "return" /\ m = {}) => outcome.res.value = None
        /\ (outcome.res.kind = "return" /\ m # {}) =>
               /\ Cardinality(m) = 1
               /\ \A i \in m : outcome.res.value = students[i]

C4_Witness ==
    /\ outcome.op = "repo.read_by_id"
    /\ students # <<>>
    /\ RowsWithId(students, outcome.args.id) = {}
    /\ outcome.res = Returned(None, outcome.res.calls)

\* C5: the service's get-by-id raises NotFoundException exactly when the
\* repository's read_by_id returns None for the id, and otherwise returns the
\* response projection of the record the repository returned, never None.
C5_GetByIdNotFoundIffAbsent ==
    outcome.op = "svc.get_by_id" =>
        LET r == read_by_id(students, outcome.args.id, outcome.args.fault) IN
        /\ (outcome.res.exc = "NotFoundException") <=> (r.kind = "return" /\ r.value = None)
        /\ (r.kind = "return" /\ r.value # None) =>
               /\ outcome.res.kind = "return"
               /\ outcome.res.value # None
               /\ \A f \in DOMAIN outcome.res.value : outcome.res.value[f] = r.value[f]

\* C6: every failure that leaves a repository operation is a
\* DatabaseException carrying the message of the underlying error; the
\* error of a failed storage call never leaves it raw or as another kind.
C6_RepositoryRaisesOnlyDatabaseException ==
    (outcome.op \in RepoOps /\ outcome.res.kind = "raise") =>
        /\ outcome.res.exc = "DatabaseException"
        /\ \E k \in DOMAIN outcome.res.calls :
               /\ outcome.res.calls[k].res # Ok
               /\ outcome.res.msg = outcome.res.calls[k].res

\* C7: every service operation returns a result or raises ServiceException
\* or NotFoundException, and a ServiceException carries the message of the
\* DatabaseException it wraps.
C7_ServiceRaisesOnlyServiceOrNotFound ==
    (outcome.op \in SvcOps /\ outcome.res.kind = "raise") =>
        /\ outcome.res.exc \in {"ServiceException", "NotFoundException"}
        /\ (outcome.res.exc = "ServiceException" => outcome.res.msg # "")

\* C8: the repository's update of an id that has no record fails with
\* DatabaseException, with no other kind and not by returning None, and
\* writes nothing.
C8_UpdateOfAbsentIdRaisesDatabaseException ==
    [][(outcome'.op = "repo.update" /\ RowsWithId(students, outcome'.args.id) = {})
       => /\ outcome'.res.kind = "raise"
          /\ outcome'.res.exc = "DatabaseException"
          /\ students' = students]_vars

\* C9: the unique filter returns a record only when exactly one row matches
\* the field value, and then that row; with no matching row and with two or
\* more it raises an error and returns neither None nor one of the rows.
C9_UniqueFilterNeedsExactlyOneRow ==
    (outcome.op = "filter.unique" /\ outcome.args.field \in {"username", "email"}) =>
        LET m == {i \in DOMAIN users : users[i][outcome.args.field] = outcome.args.value} IN
        /\ outcome.res.kind = "return" =>
               /\ Cardinality(m) = 1
               /\ \A i \in m : outcome.res.value = users[i]
        /\ Cardinality(m) # 1 =>
               /\ outcome.res.kind = "raise"
               /\ outcome.res.exc = "SQLAlchemyError"
        /\ (Cardinality(m) = 1 /\ outcome.args.fault = Ok) => outcome.res.kind = "return"

C9_Witness ==
    /\ outcome.op = "filter.unique"
    /\ outcome.args.field = "username"
    /\ outcome.args.fault = Ok
    /\ users # <<>>
    /\ \A i \in DOMAIN users : users[i].username # outcome.args.value
    /\ outcome.res.kind = "raise"
    /\ outcome.res.msg = "NoResultFound"

\* C10: called with a field other than username and email, the unique filter
\* raises the invalid-argument error before it enters the session scope and
\* before any query: the session sees no call at all.
C10_InvalidFieldFailsBeforeAnyStorageCall ==
    (outcome.op = "filter.unique" /\ outcome.args.field \notin {"username", "email"}) =>
        /\ outcome.res.kind = "raise"
        /\ outcome.res.exc = "ValueError"
        /\ outcome.res.calls = <<>>

C10_Witness ==
    /\ outcome.op = "filter.unique"
    /\ outcome.args.field = "id"
    /\ users # <<>>
    /\ outcome.res.exc = "ValueError"

Min(a, b) == IF a < b THEN a ELSE b
Max(a, b) == IF a > b THEN a ELSE b

\* C11: read_students(offset, limit) on a table of n rows returns exactly
\* min(limit, max(0, n - offset)) rows, the rows offset .. offset+limit-1 of
\* storage order, and the service's list returns a projection of the same
\* length in the same order.
C11_ReadManyReturnsTheWindow ==
    LET n == Len(students)
        k == Min(outcome.args.limit, Max(0, n - outcome.args.offset)) IN
    /\ (outcome.op = "repo.read_students" /\ outcome.res.kind = "return") =>
           outcome.res.value.rows = [i \in 1..k |-> students[outcome.args.offset + i]]
    /\ (outcome.op = "svc.get_all" /\ outcome.args.fault = Ok) =>
           /\ outcome.res.kind = "return"
           /\ Len(outcome.res.value.rows) = k
           /\ \A i \in 1..k :
                  outcome.res.value.rows[i].id = students[outcome.args.offset + i].id

\* The state of the AsyncSession after a sequence of calls: a storage call
\* checks a connection out, leaving 'async with' closes the session, entering
\* it changes nothing.
RECURSIVE SessionAfter(_)
SessionAfter(calls) ==
    IF calls = <<>> THEN "closed"
    ELSE LET c == calls[Len(calls)] IN
         IF c.call = "close" THEN "closed"
         ELSE IF c.call = "enter" THEN SessionAfter(SubSeq(calls, 1, Len(calls) - 1))
         ELSE "active"

Count(calls, name) == Cardinality({k \in DOMAIN calls : calls[k].call = name})

\* C12: every repository operation leaves each session scope it entered, on
\* every exit path: when it has returned, raised DatabaseException or let any
\* other error escape, the session is closed.
C12_SessionClosedOnEveryExit ==
    outcome.op \in RepoOps =>
        /\ SessionAfter(outcome.res.calls) = "closed"
        /\ Count(outcome.res.calls, "enter") = Count(outcome.res.calls, "close")

C12_Witness ==
    /\ outcome.op = "repo.update"
    /\ outcome.res.exc = "TypeError"
    /\ Count(outcome.res.calls, "get") = 1
    /\ SessionAfter(outcome.res.calls) = "closed"

\* C13 (as stated): the session handle is acquired per repository call and
\* not shared across calls: two operations invoked on the same repository
\* instance never use the same session handle.
C13_OperationsNeverShareAHandle ==
    Len(repo.used) = 2 => repo.used[1] # repo.used[2]

\* C13 (amended): the session handle is the one the repository instance was
\* constructed with; every operation of the instance enters and leaves its
\* own scope on that handle, so two operations invoked on the same instance
\* use the same handle.
C13_OperationsUseTheHandleOfTheInstance ==
    /\ \A i \in DOMAIN repo.used : repo.used[i] = repo.session
    /\ Len(repo.used) = 2 => repo.used[1] = repo.used[2]
    /\ outcome.op \in RepoOps =>
           /\ repo.used # <<>>
           /\ Head(outcome.res.calls) = Enter
           /\ outcome.res.calls[Len(outcome.res.calls)] = Close

C13_Witness ==
    /\ outcome.op = "repo.delete"
    /\ repo.session = 2
    /\ repo.used = <<2, 2>>

\* C14: when the delete or the commit of the repository's delete fails with
\* a storage error, the operation rolls back before it raises, raises
\* DatabaseException, and the record it read is still in storage.
C14_FailedDeleteRollsBackAndKeepsTheRecord ==
    [][(/\ outcome'.op = "repo.delete"
        /\ RowsWithId(students, outcome'.args.id) # {}
        /\ outcome'.args.fault[1] = Ok
        /\ (outcome'.args.fault[2] # Ok \/ outcome'.args.fault[3] # Ok))
       => LET calls == outcome'.res.calls IN
          /\ outcome'.res.kind = "raise"
          /\ outcome'.res.exc = "DatabaseException"
          /\ \E k, j \in DOMAIN calls :
                 /\ k < j
                 /\ calls[k].call \in {"delete", "commit"}
                 /\ calls[k].res # Ok
                 /\ calls[j].call = "rollback"
          /\ \E i \in DOMAIN students' : students'[i] = Lookup(students, outcome'.args.id)]_vars

C14_Witness ==
    /\ outcome.op = "repo.delete"
    /\ RowsWithId(students, outcome.args.id) # {}
    /\ outcome.args.fault[3] # Ok
    /\ outcome.res.exc = "DatabaseException"

\* C15: when the commit of create fails, create raises DatabaseException (the
\* service ServiceException) and returns no record, the re-read by id is not
\* attempted, and storage holds no row for the record being created.
C15_FailedCreateCommitLeavesNothing ==
    [][(outcome'.op \in {"repo.create", "svc.create"} /\ outcome'.args.fault[1] # Ok)
       => /\ outcome'.res.kind = "raise"
          /\ outcome'.res.exc =
                 (IF outcome'.op = "repo.create" THEN "DatabaseException"
                  ELSE "ServiceException")
          /\ outcome'.res.msg = outcome'.args.fault[1]
          /\ outcome'.res.value = None
          /\ \A k \in DOMAIN outcome'.res.calls :
                 outcome'.res.calls[k].call \notin {"get", "scalar", "scalars"}
          /\ students' = students
          /\ RowsWithId(students', nextId) = {}]_vars

C15_Witness ==
    /\ outcome.op = "repo.create"
    /\ outcome.args.fault[1] # Ok
    /\ students # <<>>
    /\ outcome.res.exc = "DatabaseException"

\* C16 (as stated): after a user is registered through the service with a
\* username, an email and a plaintext password, get-by-id of the created id
\* returns a response with the same username and email and a password field
\* whose value is not the plaintext.
C16_ResponseHasAPasswordOtherThanThePlaintext ==
    [][(outcome'.op = "user.register" /\ outcome'.res.kind = "return")
       => LET user == outcome'.args.user
              g == get_user_by_id(users', outcome'.res.value.id, Ok) IN
          /\ g.kind = "return"
          /\ g.value.username = user.username
          /\ g.value.email = user.email
          /\ "password" \in DOMAIN g.value
          /\ g.value.password # user.password]_vars

\* C16 (amended): after a user is registered through the service, get-by-id
\* of the created id returns a response with the same username and email and
\* without any password field, so the plaintext is not in the response; the
\* same holds for every response get-by-id returns.
C16_ResponseHasNoPasswordField ==
    [][/\ (outcome'.op = "user.register" /\ outcome'.res.kind = "return")
          => LET user == outcome'.args.user
                 g == get_user_by_id(users', outcome'.res.value.id, Ok) IN
             /\ g.kind = "return"
             /\ g.value.id = outcome'.res.value.id
             /\ g.value.username = user.username
             /\ g.value.email = user.email
             /\ "password" \notin DOMAIN g.value
       /\ (outcome'.op = "user.get_by_id" /\ outcome'.res.kind = "return")
          => /\ outcome'.res.value.username = Lookup(users, outcome'.args.id).username
             /\ outcome'.res.value.email = Lookup(users, outcome'.args.id).email
             /\ "password" \notin DOMAIN outcome'.res.value]_vars

C16_Witness ==
    /\ outcome.op = "user.get_by_id"
    /\ outcome.res.kind = "return"
    /\ outcome.res.value.username = "yuno123"
    /\ outcome.res.value.email = "yuno@mail.com"
    /\ Lookup(users, outcome.args.id).password = "Password1."

\* C17: in every student route handler a ServiceException or
\* NotFoundException the service call raises becomes a client-error (4xx)
\* HTTP response; none leaves a handler as it is, the delete route included.
C17_RoutesMapServiceErrorsTo4xx ==
    outcome.op \in RouteOps =>
        /\ outcome.res.exc \notin {"ServiceException", "NotFoundException"}
        /\ (outcome.op \in {"route.get_by_id", "route.me"}
            /\ outcome.args.fault = Ok
            /\ RowsWithId(students, outcome.args.id) = {})
           => (outcome.res.exc = "HTTPException" /\ outcome.res.msg = "404")

\* C18: NotFoundException is raised only by a service's get-by-id and only
\* when the record is absent; the list, create, update, delete and the
\* username and email lookups never raise it, whether or not the record they
\* target exists.
C18_NotFoundOnlyFromGetByIdOfAbsentRecord ==
    outcome.res.exc = "NotFoundException" =>
        /\ outcome.op \in {"svc.get_by_id", "user.get_by_id"}
        /\ outcome.args.fault = Ok
        /\ RowsWithId(IF outcome.op = "svc.get_by_id" THEN students ELSE users,
                      outcome.args.id) = {}

C18_Witness ==
    /\ outcome.op = "svc.get_by_id"
    /\ outcome.res.exc = "NotFoundException"
    /\ students # <<>>
    /\ RowsWithId(students, outcome.args.id) = {}

\* C19: a repository delete that succeeds (directly or through the service)
\* has returned true and removed the record: read_by_id of the id then returns None and the service's
\* get-by-id raises NotFoundException, and an id without record stays
\* without one until a create.
C19_DeletedRecordIsGone ==
    [][/\ (outcome'.op \in {"repo.delete", "svc.delete"} /\ outcome'.res.kind = "return") =>
              /\ outcome'.op = "repo.delete" => outcome'.res.value = PyBool(TRUE)
              /\ outcome'.op = "svc.delete" => outcome'.res.value.ok
              /\ \A i \in DOMAIN students' : students'[i].id # outcome'.args.id
              /\ read_by_id(students', outcome'.args.id, Ok).kind = "return"
              /\ read_by_id(students', outcome'.args.id, Ok).value = None
              /\ get_student_by_id(students', outcome'.args.id, Ok).exc = "NotFoundException"
       /\ \A id \in Ids :
              (RowsWithId(students, id) = {} /\ outcome'.op \notin {"repo.create", "svc.create"})
                  => /\ RowsWithId(students', id) = {}
                     /\ read_by_id(students', id, Ok).value = None]_vars

C19_Witness ==
    /\ outcome.op = "repo.delete"
    /\ outcome.res.kind = "return"
    /\ students # <<>>

\* C20: after an update that succeeds, every field of the stored record that
\* the patch sets holds the patch's value (the hash of it for a field named
\* password), in the returned record and in a following read_by_id.
C20_UpdateWritesThePatchedFields ==
    [][(outcome'.op = "repo.update" /\ outcome'.res.kind = "return")
       => LET before == Lookup(students, outcome'.args.id)
              patch == outcome'.args.patch
              after == outcome'.res.value
              reread == read_by_id(students', outcome'.args.id, Ok).value IN
          /\ after # None
          /\ reread # None
          /\ \A f \in (DOMAIN patch) \cap (DOMAIN before) :
                 LET want == IF f = "password" THEN get_password_hash(patch[f])
                             ELSE patch[f] IN
                 after[f] = want /\ reread[f] = want]_vars

C20_Witness ==
    /\ outcome.op = "repo.update"
    /\ outcome.res.kind = "return"
    /\ DOMAIN outcome.args.patch = {"first_name", "username"}
    /\ outcome.res.value.first_name = outcome.args.patch.first_name
    /\ outcome.res.value.updated_at = 2

\* C21: update changes nothing but the fields named in both the record and
\* the patch, plus updated_at: a field the patch does not set keeps its
\* value, a patch field that is no field of the record is ignored without
\* error and adds nothing to the record, and no other record is modified.
C21_UpdateChangesOnlyThePatchedFields ==
    [][(outcome'.op = "repo.update")
       => LET id == outcome'.args.id
              patch == outcome'.args.patch
              before == Lookup(students, id)
              after == Lookup(students', id) IN
          /\ Len(students') = Len(students)
          /\ \A i \in DOMAIN students :
                 students[i].id # id => students'[i] = students[i]
          /\ before # None =>
                 /\ after # None
                 /\ DOMAIN after = DOMAIN before
                 /\ \A f \in (DOMAIN before) \ ((DOMAIN patch) \cup {"updated_at"}) :
                        after[f] = before[f]
          /\ (before # None /\ \A n \in DOMAIN outcome'.args.fault :
                                    outcome'.args.fault[n] = Ok) =>
                 /\ outcome'.res.kind = "return"
                 /\ DOMAIN outcome'.res.value = DOMAIN before]_vars

C21_Witness ==
    /\ outcome.op = "repo.update"
    /\ outcome.res.kind = "return"
    /\ DOMAIN outcome.args.patch = {"username"}
    /\ Len(students) = 2
    /\ outcome.res.value.first_name \in Names

\* C22: every update that succeeds stamps the record's updated_at with the
\* time of the update; were the patch to supply a value for updated_at, the
\* loop would still store the current time and not the patch's value.
C22_UpdateStampsUpdatedAt ==
    [][(outcome'.op = "repo.update" /\ outcome'.res.kind = "return")
       => LET before == Lookup(students, outcome'.args.id)
              patch == outcome'.args.patch IN
          /\ now' > now
          /\ outcome'.res.value.updated_at = now'
          /\ Lookup(students', outcome'.args.id).updated_at = now'
          /\ \A v \in 0..MaxTime :
                 ApplyPatch(before, [updated_at |-> v] @@ patch, now').updated_at = now']_vars

C22_Witness ==
    /\ outcome.op = "repo.update"
    /\ outcome.res.kind = "return"
    /\ outcome.args.patch # <<>>
    /\ now = 2
    /\ outcome.res.value.updated_at = 2
    /\ \E i \in DOMAIN students : students[i].updated_at = 0

\* C23: when the patch of an update has a field named password that is also
\* a field of the record, the value assigned and committed is the hasher's
\* output for the patch's value; the plaintext of the patch is written to the
\* record on no path of update.
C23_UpdateWritesTheHashOfThePassword ==
    [][(outcome'.op = "user.update" /\ "password" \in DOMAIN outcome'.args.patch)
       => LET plain == outcome'.args.patch.password
              hash == get_password_hash(plain) IN
          /\ hash # plain
          /\ Len(users') = Len(users)
          /\ \A i \in DOMAIN users :
                 users'[i].password # users[i].password
                     => (users'[i].id = outcome'.args.id /\ users'[i].password = hash)
          /\ outcome'.res.kind = "return" =>
                 /\ Lookup(users', outcome'.args.id).password = hash
                 /\ outcome'.res.value.password = hash]_vars

C23_Witness ==
    /\ outcome.op = "user.update"
    /\ outcome.res.kind = "return"
    /\ "password" \in DOMAIN outcome.args.patch
    /\ outcome.args.patch.password = "Password1."
    /\ Lookup(users, outcome.args.id).password = "$2b$12$Kix"

\* C26: within update, delete and create the session scope the operation
\* entered stays open until its own last storage call is done: the nested
\* read_by_id / index filter call, which enters and leaves a scope on the
\* same session, does not close the session before the operation's delete or
\* commit runs.
C26_NestedScopeDoesNotCloseTheSession ==
    outcome.op \in {"repo.create", "repo.update", "repo.delete"} =>
        \A k \in DOMAIN outcome.res.calls :
            outcome.res.calls[k].call \in {"commit", "delete"} =>
                \A j \in 1..(k - 1) : outcome.res.calls[j] # Close

\* C27: a storage error raised inside the index filter or the unique filter
\* leaves the filter as that very error: it is not translated into
\* DatabaseException or another kind and not swallowed by returning None.
C27_FiltersReraiseStorageErrorsUnchanged ==
    outcome.op \in {"filter.index", "filter.unique"} =>
        /\ outcome.res.kind = "raise" =>
               outcome.res.exc \in {"SQLAlchemyError", "ValueError"}
        /\ Failed(outcome.res.calls) =>
               /\ outcome.res.kind = "raise"
               /\ outcome.res.exc = "SQLAlchemyError"
               /\ outcome.res.msg = outcome.args.fault
               /\ outcome.res.value = None

C27_Witness ==
    /\ outcome.op = "filter.index"
    /\ outcome.args.fault = "connection lost"
    /\ outcome.res.exc = "SQLAlchemyError"
    /\ outcome.res.msg = "connection lost"
    /\ users # <<>>

\* C28: for every storage state and id the two paths of the index filter
\* give the same outcome: with a field (select ... where id = value) and
\* without one (fetch by primary key) both return the same record or both
\* return None.
C28_IndexFilterPathsAgree ==
    /\ \A id \in 1..(MaxRows + 1), res \in CallResults :
           LET a == IndexFilter_filter(users, id, "id", res)
               b == IndexFilter_filter(users, id, "", res) IN
           /\ a.kind = b.kind
           /\ a.value = b.value
           /\ a.exc = b.exc
           /\ a.msg = b.msg
    /\ outcome.op = "filter.index" =>
           LET other == IndexFilter_filter(users, outcome.args.id,
                                           IF outcome.args.field = "" THEN "id" ELSE "",
                                           outcome.args.fault) IN
           /\ outcome.res.kind = other.kind
           /\ outcome.res.value = other.value

C28_Witness ==
    /\ outcome.op = "filter.index"
    /\ outcome.args.field = "id"
    /\ outcome.res.kind = "return"
    /\ outcome.res.value # None
    /\ outcome.res.value.id = 2

\* C29: no operation retries: once a storage call of an operation has
\* failed, the operation issues no further query, get, commit or delete and
\* ends by raising.
C29_NoStorageCallAfterAFailure ==
    outcome.op # "idle" =>
        \A k \in DOMAIN outcome.res.calls :
            outcome.res.calls[k].res # Ok =>
                /\ outcome.res.kind = "raise"
                /\ \A j \in DOMAIN outcome.res.calls :
                       j > k => outcome.res.calls[j].call \in {"close", "rollback"}

C29_Witness ==
    /\ outcome.op = "svc.update"
    /\ outcome.res.kind = "raise"
    /\ Count(outcome.res.calls, "get") = 1
    /\ Count(outcome.res.calls, "commit") = 1
    /\ Failed(outcome.res.calls)

C24_ConcurrentUpdatesLastWriteWins ==
    /\ \A p \in Updaters :
          (tasks[p].pc = "done" /\ tasks[p].seq > 0) => tasks[p].out.kind = "return"
    /\ \A first \in Updaters, last \in Updaters :
          (/\ tasks[first].seq > 0
           /\ tasks[last].seq > tasks[first].seq
           /\ RowsWithId(students, RaceId) # {})
          => \A f \in (DOMAIN tasks[first].patch) \cap (DOMAIN tasks[last].patch)
                      \cap DOMAIN Lookup(students, RaceId) :
                 Lookup(students, RaceId)[f] = tasks[last].patch[f]

\* C25: when a concurrent delete removes the record after update_student
\* has read it and before it commits, the update ends in a storage error,
\* neither a not-found result nor a None return, and the deleted record is
\* not written again.
C25_UpdateAfterConcurrentDeleteIsAStorageError ==
    [][\A p \in Updaters :
          (/\ tasks[p].pc = "read"
           /\ tasks'[p].pc # "read"
           /\ RowsWithId(students, RaceId) = {})
          => /\ tasks'[p].pc = "done"
             /\ tasks'[p].out.kind = "raise"
             /\ tasks'[p].out.exc = "SQLAlchemyError"
             /\ tasks'[p].out.msg = Stale
             /\ RowsWithId(students', RaceId) = {}
      ]_vars

C25_Witness ==
    /\ \E p \in Updaters :
          /\ tasks[p].pc = "done"
          /\ tasks[p].read # None
          /\ tasks[p].out.kind = "raise"
          /\ tasks[p].out.exc = "SQLAlchemyError"
    /\ \E d \in Deleters :
          /\ tasks[d].pc = "done"
          /\ tasks[d].out.kind = "return"
          /\ tasks[d].out.value = PyBool(TRUE)
    /\ students = <<>>

====
